---- MODULE Spec2Model ----
(***************************************************************************)
(* Model of the NAHRIM FunctionGraph handlers: the dam handler             *)
(* (demlevel_fg1), the water-level handlers (waterlevel_fg,                *)
(* waterlevel_fg1), the water-quality handlers (waterquality_fg,           *)
(* waterquality_fg1) and the rainfall handler (rainfall_fn(bs-csv)).       *)
(* One run of one handler is one behaviour: Init picks the handler, the    *)
(* event body and the environment; every network call (page GET, OBS       *)
(* putContent, CDM start) is one action whose outcome is chosen by the     *)
(* environment.  Strings built with f-strings are sequences of tokens.     *)
(***************************************************************************)
EXTENDS Integers, Sequences, FiniteSets, TLC

VARIABLES prog, body, env_ok, pc, todo, idx, attempt, legacy_result,
          results, all_items, hist, puts, cdm_calls, obs_result,
          csv_content, response,
          REACTOR_STARTED, SCRAPED_ITEMS, crawl, invocation

\* the module globals of the Scrapy variant, the requests of its crawl and
\* the number of handler invocations the process has seen
ProcessVars == <<REACTOR_STARTED, SCRAPED_ITEMS, crawl, invocation>>

vars == <<prog, body, env_ok, pc, todo, idx, attempt, legacy_result,
          results, all_items, hist, puts, cdm_calls, obs_result,
          csv_content, response, ProcessVars>>

(* ------------------------------ bounds --------------------------------- *)
\* number of registry entries of each state table that are modelled
NumStates == 2
\* longest state list an event body carries
MaxReq == 2
\* most data rows one fetched page or payload yields
MaxRows == 2

\* entries of STATE_MAP the spider requests, and handler invocations one
\* process serves
SpiderStates == 3
MaxInvocations == 3

(* --------------------------- small helpers ----------------------------- *)
RECURSIVE SumSeq(_)
SumSeq(s) == IF s = <<>> THEN 0 ELSE Head(s) + SumSeq(Tail(s))

RECURSIVE Flatten(_)
Flatten(ss) == IF ss = <<>> THEN <<>> ELSE Head(ss) \o Flatten(Tail(ss))

Range(s) == {s[i] : i \in DOMAIN s}

SeqsUpTo(S, n) == UNION {[1..k -> S] : k \in 0..n}

\* [x for x in s if x not in drop]
RECURSIVE Without(_, _)
Without(s, drop) ==
    IF s = <<>> THEN <<>>
    ELSE IF Head(s) \in drop THEN Without(Tail(s), drop)
         ELSE <<Head(s)>> \o Without(Tail(s), drop)

\* [x for x in s if x in keep]
RECURSIVE Only(_, _)
Only(s, keep) ==
    IF s = <<>> THEN <<>>
    ELSE IF Head(s) \in keep THEN <<Head(s)>> \o Only(Tail(s), keep)
         ELSE Only(Tail(s), keep)

IsSuffix(t, s) ==
    /\ Len(t) <= Len(s)
    /\ SubSeq(s, Len(s) - Len(t) + 1, Len(s)) = t

(* ------------------------- shapes of the state ------------------------- *)
\* a per-state result dict; keys is the set of keys the dict has
NoResult == [keys |-> {}, state |-> "", count |-> 0, data |-> <<>>, error |-> <<>>]

ErrorResult(state_name, msg) ==
    [keys |-> {"error"}, state |-> state_name, count |-> 0, data |-> <<>>,
     error |-> msg]

\* r.get("count", 0)
GetCount(r) == IF "count" \in r.keys THEN r.count ELSE 0

NoObs == [called |-> FALSE, success |-> FALSE, error |-> <<>>, has_key |-> FALSE]

NoCsv == [encoded |-> FALSE, fieldnames |-> <<>>, rows |-> <<>>]

NoResponse == [kind |-> "none", statusCode |-> 0, success |-> FALSE,
               error |-> <<>>, total |-> -1, obs_upload |-> FALSE]

Returned(code, ok, err, total) ==
    [kind |-> "returned", statusCode |-> code, success |-> ok,
     error |-> err, total |-> total, obs_upload |-> FALSE]

\* The body of a pipeline summary: it carries the upload result (the
\* "obs_upload" entry, or the bucket and object key) next to the counts.
Summary(code, ok, total) ==
    [Returned(code, ok, <<>>, total) EXCEPT !.obs_upload = TRUE]

\* one entry per loop position: GETs sent to each source, how many of them
\* ended in a network exception, whether the second source's scraper was
\* entered, whether the first source's page was handed to its parser, and
\* the records each source gave (-1 while unresolved); out is what the
\* state contributed (-1 while open)
NoHist == [gets1 |-> 0, gets2 |-> 0, exc1 |-> 0, exc2 |-> 0, att2 |-> FALSE,
           parsed1 |-> FALSE, n1 |-> -1, n2 |-> -1, out |-> -1]

\* 1 when the GET of this outcome ended in requests.RequestException
Raised(o) == IF o.kind \in {"request_failed", "raises"} THEN 1 ELSE 0

\* a request of the crawl: where it is, the retries it has used, the rows
\* of its page that parse_state accepts and those it has appended so far
NoRequest == [status |-> "none", retries |-> 0, n |-> 0, pos |-> 0]

\* a fresh process: the module-level assignments
ProcessInit ==
    /\ REACTOR_STARTED = FALSE
    /\ SCRAPED_ITEMS = <<>>
    /\ crawl = [s \in 1..SpiderStates |-> NoRequest]
    /\ invocation = 0

(* ------------------------------ dam ------------------------------------ *)
DAM_STATE_MAPPING ==
    <<"Johor", "Kedah", "Kelantan", "Labuan", "Melaka", "Negeri Sembilan",
      "Pahang", "Perak", "Perlis", "Pulau Pinang", "Selangor", "Terengganu">>

DamRegistry == SubSeq(DAM_STATE_MAPPING, 1, NumStates)

\* str.lower() on the spellings the model uses
Lower(s) ==
    CASE s \in {"Johor", "JOHOR"} -> "johor"
      [] s \in {"Kedah", "KEDAH"} -> "kedah"
      [] s = "Kelantan" -> "kelantan"
      [] s = "Labuan" -> "labuan"
      [] s = "Melaka" -> "melaka"
      [] s = "Negeri Sembilan" -> "negeri sembilan"
      [] s = "Pahang" -> "pahang"
      [] s = "Perak" -> "perak"
      [] s = "Perlis" -> "perlis"
      [] s = "Pulau Pinang" -> "pulau pinang"
      [] s = "Selangor" -> "selangor"
      [] s = "Terengganu" -> "terengganu"
      [] s = "Sabah" -> "sabah"
      [] s = "Sarawak" -> "sarawak"
      [] s = "WP Kuala Lumpur" -> "wp kuala lumpur"
      [] s = "WP Labuan" -> "wp labuan"
      [] s = "WP Putrajaya" -> "wp putrajaya"
      [] OTHER -> s

\* ids and names an event body may carry: registry ids and one id that is
\* in no registry; exact, upper-case and lower-case spellings and one name
\* that is in no registry
RequestIds == (1..NumStates) \cup {99}
RequestNames == {"Johor", "JOHOR", "kedah", "Atlantis"}

IdBodies ==
    [shape : {"state_id"}, ids : [1..1 -> RequestIds], names : {<<>>}]
    \cup [shape : {"state"}, ids : {<<>>}, names : [1..1 -> RequestNames]]
    \cup [shape : {"state_ids"}, ids : SeqsUpTo(RequestIds, MaxReq), names : {<<>>}]
    \cup [shape : {"states"}, ids : {<<>>}, names : SeqsUpTo(RequestNames, MaxReq)]
    \cup [shape : {"default"}, ids : {<<>>}, names : {<<>>}]

\* next((k for k, v in STATE_MAPPING.items() if v.lower() == name.lower()), None)
\* 0 stands for None
LookupId(registry, name) ==
    LET hits == {k \in DOMAIN registry : Lower(registry[k]) = Lower(name)}
    IN  IF hits = {} THEN 0 ELSE CHOOSE k \in hits : \A j \in hits : k <= j

\* for name in state_names: if state_id: state_ids_to_fetch.append(state_id)
RECURSIVE ResolveNames(_, _)
ResolveNames(registry, names) ==
    IF names = <<>> THEN <<>>
    ELSE LET k == LookupId(registry, Head(names))
         IN  (IF k # 0 THEN <<k>> ELSE <<>>) \o ResolveNames(registry, Tail(names))

\* the if/elif chain that builds state_ids_to_fetch; found = FALSE is the
\* early 400 return of the single-name branch
ResolveStateIds(registry, b) ==
    CASE b.shape = "state_id" -> [found |-> TRUE, ids |-> b.ids]
      [] b.shape = "state" ->
            LET k == LookupId(registry, b.names[1])
            IN  IF k # 0 THEN [found |-> TRUE, ids |-> <<k>>]
                ELSE [found |-> FALSE, ids |-> <<>>]
      [] b.shape = "state_ids" -> [found |-> TRUE, ids |-> b.ids]
      [] b.shape = "states" ->
            [found |-> TRUE, ids |-> ResolveNames(registry, b.names)]
      [] OTHER -> [found |-> TRUE, ids |-> [k \in DOMAIN registry |-> k]]

\* STATE_MAPPING.get(state_id, f"Unknown-{state_id}")
StateName(registry, id) ==
    IF id \in DOMAIN registry THEN registry[id] ELSE "Unknown-99"

\* the <thead> texts a dam page may carry
DamHeaders == << <<"Bil", "Empangan">>, <<"Bil", "Empangan", "Catatan">> >>

DamExtraCols ==
    <<"Kategori Simpanan Semalam", "Kategori Simpanan Semasa", "state_id",
      "state_name">>

PageErrors(kinds) == [kind : kinds, n : {0}, hdr : {1}]

DamOutcomes ==
    PageErrors({"request_failed", "no_table", "no_thead", "no_tbody", "exception"})
    \cup [kind : {"table"}, n : 0..MaxRows, hdr : DOMAIN DamHeaders]

\* one scraped row: the dict's keys in insertion order, where it came from
Record(state_name, src, k, cols) ==
    [state |-> state_name, src |-> src, row |-> k, cols |-> cols]

scrape_dam_data(state_id, state_name, o) ==
    CASE o.kind = "request_failed" ->
            ErrorResult(state_name, <<"Request failed for ", state_name>>)
      [] o.kind = "no_table" ->
            ErrorResult(state_name, <<"No dam table found for ", state_name>>)
      [] o.kind = "no_thead" ->
            ErrorResult(state_name, <<"No table header found for ", state_name>>)
      [] o.kind = "no_tbody" ->
            ErrorResult(state_name, <<"No table body found for ", state_name>>)
      [] o.kind = "exception" ->
            ErrorResult(state_name, <<"Processing failed for ", state_name>>)
      [] OTHER ->
            [keys |-> {"count", "data"}, state |-> state_name, count |-> o.n,
             data |-> [k \in 1..o.n |->
                        Record(state_name, "span", k,
                               DamHeaders[o.hdr] \o DamExtraCols)],
             error |-> <<>>]

\* rows.extend(state_result["data"]) over every result that has a data list
FlattenData(rs) ==
    Flatten([i \in DOMAIN rs |->
               IF "data" \in rs[i].keys THEN rs[i].data ELSE <<>>])

\* a writer made with extrasaction="ignore"
DictWriterAccepts_Ignore(fieldnames, rows) == TRUE

\* csv.DictWriter.writerow raises ValueError on a key outside fieldnames
DictWriterAccepts(fieldnames, rows) ==
    \A i \in DOMAIN rows : Range(rows[i].cols) \subseteq Range(fieldnames)

PutOutcomes == {"ok", "rejected", "raises"}

\* fieldnames from the first row only, the extra columns moved to the end
FirstRowFieldnames(rows, extra_cols) ==
    IF rows # <<>>
    THEN Without(rows[1].cols, Range(extra_cols))
         \o Only(extra_cols, Range(rows[1].cols))
    ELSE <<>>

\* save_to_obs of the dam and water-quality handlers: flatten, encode, put
SaveFirstRowCsv(rs, extra_cols, po) ==
    LET rows == FlattenData(rs)
        fieldnames == FirstRowFieldnames(rows, extra_cols)
        encodes == DictWriterAccepts(fieldnames, rows)
        csv == [encoded |-> TRUE, fieldnames |-> fieldnames,
                rows |-> IF fieldnames # <<>> THEN rows ELSE <<>>]
    IN  IF ~encodes
        THEN [obs |-> [called |-> TRUE, success |-> FALSE,
                       error |-> <<"OBS operation failed: ", "ValueError">>,
                       has_key |-> FALSE],
              csv |-> NoCsv, put |-> 0]
        ELSE CASE po = "ok" ->
                    [obs |-> [called |-> TRUE, success |-> TRUE, error |-> <<>>,
                              has_key |-> TRUE],
                     csv |-> csv, put |-> 1]
               [] po = "rejected" ->
                    [obs |-> [called |-> TRUE, success |-> FALSE,
                              error |-> <<"OBS upload failed: ", "errorCode">>,
                              has_key |-> TRUE],
                     csv |-> csv, put |-> 1]
               [] OTHER ->
                    [obs |-> [called |-> TRUE, success |-> FALSE,
                              error |-> <<"OBS operation failed: ", "put raised">>,
                              has_key |-> TRUE],
                     csv |-> csv, put |-> 1]

save_to_obs_dam(rs, po) == SaveFirstRowCsv(rs, DamExtraCols, po)

\* the states counted instead of their records
TotalCount_StatesNotRows(rs) == Len(rs)

\* sum(r.get("count", 0) for r in results if "count" in r)
TotalCount(rs) ==
    SumSeq([i \in DOMAIN rs |->
              IF "count" \in rs[i].keys THEN GetCount(rs[i]) ELSE 0])

CdmOutcomes == {"ok", "env_missing", "request_raises", "non200"}

\* start_cdm_job: the job info, or the message of the exception it raises
start_cdm_job(to) ==
    CASE to = "ok" -> [raised |-> FALSE, msg |-> <<>>]
      [] to = "env_missing" ->
            [raised |-> TRUE,
             msg |-> <<"PROJECT_ID and CDM_CLUSTER_ID must be set">>]
      [] to = "request_raises" -> [raised |-> TRUE, msg |-> <<"put raised">>]
      [] OTHER -> [raised |-> TRUE, msg |-> <<"Failed to start CDM job">>]

\* where a loop over todo goes after position i
AfterState(i, list) == IF i >= Len(list) THEN "save" ELSE "scrape"

FreshHist(list) == [i \in DOMAIN list |-> NoHist]

DamResolve ==
    /\ prog = "dam" /\ pc = "resolve"
    /\ LET r == ResolveStateIds(DamRegistry, body)
       IN  IF ~r.found
           THEN /\ response' = Returned(400, FALSE, <<"State not found in mapping">>, -1)
                /\ pc' = "done"
                /\ UNCHANGED <<todo, hist>>
           ELSE /\ todo' = r.ids
                /\ hist' = FreshHist(r.ids)
                /\ pc' = AfterState(0, r.ids)
                /\ UNCHANGED response
    /\ UNCHANGED <<ProcessVars, prog, body, env_ok, idx, attempt, legacy_result, results,
                   all_items, puts, cdm_calls, obs_result, csv_content>>

DamScrape ==
    /\ prog = "dam" /\ pc = "scrape"
    /\ \E o \in DamOutcomes :
         LET state_id == todo[idx]
             result == scrape_dam_data(state_id, StateName(DamRegistry, state_id), o)
         IN  /\ results' = Append(results, result)
             /\ hist' = [hist EXCEPT ![idx] =
                           [@ EXCEPT !.gets1 = 1, !.exc1 = Raised(o),
                                     !.n1 = GetCount(result),
                                     !.out = GetCount(result)]]
    /\ idx' = idx + 1
    /\ pc' = AfterState(idx, todo)
    /\ UNCHANGED <<ProcessVars, prog, body, env_ok, todo, attempt, legacy_result, all_items,
                   puts, cdm_calls, obs_result, csv_content, response>>

\* the handler without the check of obs_result
DamAfterSave_NoCheck(obs) == "trigger"

\* if not obs_result.get("success"): raise, which the handler turns into 500
DamAfterSave(obs) == IF ~obs.success THEN "done" ELSE "trigger"

DamSave ==
    /\ prog = "dam" /\ pc = "save"
    /\ \E po \in PutOutcomes :
         LET s == save_to_obs_dam(results, po)
         IN  /\ obs_result' = s.obs
             /\ csv_content' = s.csv
             /\ puts' = puts + s.put
             /\ pc' = DamAfterSave(s.obs)
             /\ response' =
                  IF DamAfterSave(s.obs) = "done"
                  THEN Returned(500, FALSE,
                         <<"OBS upload failed, not starting CDM: ">> \o s.obs.error, -1)
                  ELSE response
    /\ UNCHANGED <<ProcessVars, prog, body, env_ok, todo, idx, attempt, legacy_result,
                   results, all_items, hist, cdm_calls>>

DamTrigger ==
    /\ prog = "dam" /\ pc = "trigger"
    /\ \E to \in CdmOutcomes :
         LET c == start_cdm_job(to)
         IN  response' =
               IF c.raised THEN Returned(500, FALSE, c.msg, -1)
               ELSE Summary(200, TRUE, TotalCount(results))
    /\ cdm_calls' = cdm_calls + 1
    /\ pc' = "done"
    /\ UNCHANGED <<ProcessVars, prog, body, env_ok, todo, idx, attempt, legacy_result,
                   results, all_items, hist, puts, obs_result, csv_content>>

(* --------------------------- water level ------------------------------- *)
WL_DEFAULT_STATE_LIST ==
    <<"Johor", "Selangor", "Pahang", "Negeri Sembilan", "Perlis", "Kedah">>

WL1_STATE_NAMES ==
    <<"Johor", "Kedah", "Kelantan", "Melaka", "Negeri Sembilan", "Pahang",
      "Pulau Pinang", "Perak", "Perlis", "Selangor", "Terengganu", "Sabah",
      "Sarawak", "Wilayah Persekutuan Kuala Lumpur",
      "Wilayah Persekutuan Labuan", "Wilayah Persekutuan Putrajaya">>

\* the names STATE_CODE_MAP of _scrape_state_new has a code for
WL_NEW_STATE_NAMES == Range(WL1_STATE_NAMES)

\* "Atlantis" has no code in STATE_CODE_MAP
WlRequestNames == {"Johor", "Kedah", "Atlantis"}

NameBodies ==
    [shape : {"state"}, ids : {<<>>}, names : [1..1 -> WlRequestNames]]
    \cup [shape : {"states"}, ids : {<<>>}, names : SeqsUpTo(WlRequestNames, MaxReq)]
    \cup [shape : {"default"}, ids : {<<>>}, names : {<<>>}]

WlCols ==
    <<"state_name", "bil", "id_stesen", "nama_stesen", "daerah", "lembangan",
      "sub_lembangan", "kemaskini_terakhir", "aras_air_m", "ambang_normal",
      "ambang_waspada", "ambang_amaran", "ambang_bahaya">>

\* waterlevel_fg1 adds scraped_timestamp to every data point
Wl1Cols == WlCols \o <<"scraped_timestamp">>

WlRecordCols == IF prog = "wl1" THEN Wl1Cols ELSE WlCols

LegacyOutcomes ==
    PageErrors({"request_failed", "no_table", "no_tbody", "exception"})
    \cup [kind : {"table"}, n : 0..MaxRows, hdr : {1}]

NewOutcomes ==
    PageErrors({"request_failed", "no_table", "exception"})
    \cup [kind : {"table"}, n : 0..MaxRows, hdr : {1}]

ScrapedRows(state_name, src, n, cols) ==
    [keys |-> {"count", "data"}, state |-> state_name, count |-> n,
     data |-> [k \in 1..n |-> Record(state_name, src, k, cols)],
     error |-> <<>>]

_scrape_state_legacy(state_name, o, cols) ==
    CASE o.kind = "request_failed" ->
            ErrorResult("", <<"Legacy URL request failed for ", state_name>>)
      [] o.kind = "no_table" ->
            ErrorResult("", <<"No data table found (legacy URL) for ", state_name>>)
      [] o.kind = "no_tbody" ->
            ErrorResult("", <<"No table body found (legacy URL) for ", state_name>>)
      [] o.kind = "exception" ->
            ErrorResult("", <<"Legacy URL parsing failed for ", state_name>>)
      [] OTHER -> ScrapedRows(state_name, "legacy", o.n, cols)

\* the new scraper sends no request for a name that has no state code
NewSendsRequest(state_name) == state_name \in WL_NEW_STATE_NAMES

_scrape_state_new(state_name, o, cols) ==
    IF ~NewSendsRequest(state_name)
    THEN ErrorResult("", <<"Unknown state name for new URL: ", state_name>>)
    ELSE CASE o.kind = "request_failed" ->
                ErrorResult("", <<"New URL request failed for ", state_name>>)
           [] o.kind = "no_table" ->
                ErrorResult("", <<"No data table found (new URL) for ", state_name>>)
           [] o.kind = "exception" ->
                ErrorResult("", <<"New URL parsing failed for ", state_name>>)
           [] OTHER -> ScrapedRows(state_name, "new", o.n, cols)

\* the comparison off by one
FirstSourceWins_OffByOne(first) == GetCount(first) > 1

\* legacy_result.get("count", 0) > 0: the first source is taken as it is
FirstSourceWins(first) == GetCount(first) > 0

\* step 3 of scrape_state_data: the combined error message
CombinedError(legacy, new) ==
    LET m0 == <<"Unknown error">>
        m1 == IF "error" \in legacy.keys THEN <<"Legacy: ">> \o legacy.error ELSE m0
    IN  IF "error" \in new.keys THEN m1 \o <<"; New: ">> \o new.error ELSE m1

\* steps 2 and 3 of scrape_state_data, once the new scraper has answered
ScrapeStateDataTail(state_name, legacy, new) ==
    IF GetCount(new) > 0 THEN new
    ELSE [keys |-> {"count", "data", "error"}, state |-> state_name,
          count |-> 0, data |-> <<>>, error |-> CombinedError(legacy, new)]

\* what waterlevel_fg1.handler adds to all_items for one result
Wl1Keeps(result) ==
    IF "error" \in result.keys THEN <<>>
    ELSE IF "data" \in result.keys /\ result.data # <<>> THEN result.data
    ELSE <<>>

\* a per-state result reaches the handler: waterlevel_fg appends it to
\* results, waterlevel_fg1 extends all_items and, after the last state,
\* raises when nothing was scraped
WlCollect(result) ==
    LET items == IF prog = "wl1" THEN all_items \o Wl1Keeps(result) ELSE all_items
        last == idx >= Len(todo)
    IN  /\ results' = IF prog = "wl" THEN Append(results, result) ELSE results
        /\ all_items' = items
        /\ idx' = idx + 1
        /\ IF prog = "wl1" /\ last /\ items = <<>>
           THEN /\ pc' = "done"
                /\ response' = Returned(500, FALSE,
                                 <<"No water level data found from any state">>, -1)
           ELSE /\ pc' = AfterState(idx, todo)
                /\ UNCHANGED response

WlResolve ==
    /\ prog = "wl" /\ pc = "resolve"
    /\ IF ~env_ok
       THEN /\ response' = Returned(400, FALSE, <<"Missing OBS configuration">>, -1)
            /\ pc' = "done"
            /\ UNCHANGED <<todo, hist>>
       ELSE LET states_to_scrape ==
                    CASE body.shape = "state" -> <<body.names[1]>>
                      [] body.shape = "states" -> body.names
                      [] OTHER -> SubSeq(WL_DEFAULT_STATE_LIST, 1, NumStates)
            IN  /\ todo' = states_to_scrape
                /\ hist' = FreshHist(states_to_scrape)
                /\ pc' = AfterState(0, states_to_scrape)
                /\ UNCHANGED response
    /\ UNCHANGED <<ProcessVars, prog, body, env_ok, idx, attempt, legacy_result, results,
                   all_items, puts, cdm_calls, obs_result, csv_content>>

Wl1Start ==
    /\ prog = "wl1" /\ pc = "resolve"
    /\ todo' = SubSeq(WL1_STATE_NAMES, 1, NumStates)
    /\ hist' = FreshHist(todo')
    /\ pc' = "scrape"
    /\ UNCHANGED <<ProcessVars, prog, body, env_ok, idx, attempt, legacy_result, results,
                   all_items, puts, cdm_calls, obs_result, csv_content, response>>

\* scrape_state_data up to the decision on the legacy result
WlLegacy ==
    /\ prog \in {"wl", "wl1"} /\ pc = "scrape"
    /\ \E o \in LegacyOutcomes :
         LET first == _scrape_state_legacy(todo[idx], o, WlRecordCols)
         IN  IF FirstSourceWins(first)
             THEN /\ WlCollect(first)
                  /\ hist' = [hist EXCEPT ![idx] =
                                [@ EXCEPT !.gets1 = 1, !.exc1 = Raised(o),
                                          !.n1 = GetCount(first),
                                          !.out = GetCount(first)]]
                  /\ UNCHANGED legacy_result
             ELSE /\ legacy_result' = first
                  /\ hist' = [hist EXCEPT ![idx] =
                                [@ EXCEPT !.gets1 = 1, !.exc1 = Raised(o),
                                          !.n1 = GetCount(first)]]
                  /\ pc' = "fallback"
                  /\ UNCHANGED <<results, all_items, idx, response>>
    /\ UNCHANGED <<ProcessVars, prog, body, env_ok, todo, attempt, puts, cdm_calls,
                   obs_result, csv_content>>

\* the rest of scrape_state_data: the new scraper and the combined failure
WlNew ==
    /\ prog \in {"wl", "wl1"} /\ pc = "fallback"
    /\ \E o \in NewOutcomes :
         LET new == _scrape_state_new(todo[idx], o, WlRecordCols)
             result == ScrapeStateDataTail(todo[idx], legacy_result, new)
         IN  /\ WlCollect(result)
             /\ hist' = [hist EXCEPT ![idx] =
                           [@ EXCEPT !.att2 = TRUE,
                                     !.gets2 = IF NewSendsRequest(todo[idx]) THEN 1 ELSE 0,
                                     !.exc2 = IF NewSendsRequest(todo[idx])
                                              THEN Raised(o) ELSE 0,
                                     !.n2 = GetCount(new),
                                     !.out = GetCount(result)]]
    /\ legacy_result' = NoResult
    /\ UNCHANGED <<ProcessVars, prog, body, env_ok, todo, attempt, puts, cdm_calls,
                   obs_result, csv_content>>

\* waterlevel_fg.save_to_obs: fixed header, then the put
save_to_obs_wl(rs, po) ==
    LET rows == FlattenData(rs)
        csv == [encoded |-> TRUE, fieldnames |-> WlCols, rows |-> rows]
    IN  IF ~DictWriterAccepts(WlCols, rows)
        THEN [obs |-> [called |-> TRUE, success |-> FALSE,
                       error |-> <<"OBS operation failed: ", "ValueError">>,
                       has_key |-> FALSE],
              csv |-> NoCsv, put |-> 0]
        ELSE CASE po = "ok" ->
                    [obs |-> [called |-> TRUE, success |-> TRUE, error |-> <<>>,
                              has_key |-> TRUE],
                     csv |-> csv, put |-> 1]
               [] po = "rejected" ->
                    [obs |-> [called |-> TRUE, success |-> FALSE,
                              error |-> <<"OBS upload failed: ", "errorCode">>,
                              has_key |-> FALSE],
                     csv |-> csv, put |-> 1]
               [] OTHER ->
                    [obs |-> [called |-> TRUE, success |-> FALSE,
                              error |-> <<"OBS operation failed: ", "put raised">>,
                              has_key |-> TRUE],
                     csv |-> csv, put |-> 1]

\* waterlevel_fg.handler after the loop: save, then always answer 200
WlSave ==
    /\ prog = "wl" /\ pc = "save"
    /\ \E po \in PutOutcomes :
         LET s == save_to_obs_wl(results, po)
         IN  /\ obs_result' = s.obs
             /\ csv_content' = s.csv
             /\ puts' = puts + s.put
    /\ response' = Summary(200, TRUE, TotalCount(results))
    /\ pc' = "done"
    /\ UNCHANGED <<ProcessVars, prog, body, env_ok, todo, idx, attempt, legacy_result,
                   results, all_items, hist, cdm_calls>>

\* fieldnames: every key once, in the order of its first occurrence
FirstSeen(keys) ==
    LET firsts == {i \in DOMAIN keys : \A j \in 1..(i - 1) : keys[j] # keys[i]}
    IN  [k \in 1..Cardinality(firsts) |->
           keys[CHOOSE i \in firsts : Cardinality({j \in firsts : j < i}) = k - 1]]

\* fieldnames.insert(0, fieldnames.pop(fieldnames.index(key)))
MoveToFront(fieldnames, key) ==
    IF key \in Range(fieldnames)
    THEN <<key>> \o Without(fieldnames, {key})
    ELSE fieldnames

\* the keys of the first item only
ItemsFieldnames_FirstItemOnly(items) ==
    MoveToFront(MoveToFront(items[1].cols, "state_code"), "state_name")

\* the fieldnames loop of items_to_csv and the two moves to the front
ItemsFieldnames(items) ==
    MoveToFront(
        MoveToFront(FirstSeen(Flatten([i \in DOMAIN items |-> items[i].cols])),
                    "state_code"),
        "state_name")

\* items_to_csv: "" for no items, else header and one line per item
items_to_csv(items) ==
    IF items = <<>> THEN [encoded |-> TRUE, fieldnames |-> <<>>, rows |-> <<>>]
    ELSE [encoded |-> TRUE, fieldnames |-> ItemsFieldnames(items), rows |-> items]

\* upload_to_obs: returns the object key or raises
upload_to_obs(creds, po) ==
    IF ~creds
    THEN [obs |-> [called |-> TRUE, success |-> FALSE,
                   error |-> <<"OBS_AK and OBS_SK environment variables must be set">>,
                   has_key |-> FALSE],
          put |-> 0]
    ELSE CASE po = "ok" ->
                [obs |-> [called |-> TRUE, success |-> TRUE, error |-> <<>>,
                          has_key |-> TRUE],
                 put |-> 1]
           [] po = "rejected" ->
                [obs |-> [called |-> TRUE, success |-> FALSE,
                          error |-> <<"OBS upload failed: status=", "errorCode">>,
                          has_key |-> FALSE],
                 put |-> 1]
           [] OTHER ->
                [obs |-> [called |-> TRUE, success |-> FALSE,
                          error |-> <<"put raised">>, has_key |-> FALSE],
                 put |-> 1]

\* an exception of upload_to_obs skips start_cdm_job and lands in except
Wl1AfterUpload(obs) == IF ~obs.success THEN "done" ELSE "trigger"

Wl1Save ==
    /\ prog = "wl1" /\ pc = "save"
    /\ csv_content' = items_to_csv(all_items)
    /\ \E po \in PutOutcomes :
         LET u == upload_to_obs(env_ok, po)
         IN  /\ obs_result' = u.obs
             /\ puts' = puts + u.put
             /\ pc' = Wl1AfterUpload(u.obs)
             /\ response' =
                  IF Wl1AfterUpload(u.obs) = "done"
                  THEN Returned(500, FALSE, u.obs.error, -1)
                  ELSE response
    /\ UNCHANGED <<ProcessVars, prog, body, env_ok, todo, idx, attempt, legacy_result,
                   results, all_items, hist, cdm_calls>>

Wl1Trigger ==
    /\ prog = "wl1" /\ pc = "trigger"
    /\ \E to \in CdmOutcomes :
         LET c == start_cdm_job(to)
         IN  response' =
               IF c.raised THEN Returned(500, FALSE, c.msg, -1)
               ELSE Summary(200, TRUE, Len(all_items))
    /\ cdm_calls' = cdm_calls + 1
    /\ pc' = "done"
    /\ UNCHANGED <<ProcessVars, prog, body, env_ok, todo, idx, attempt, legacy_result,
                   results, all_items, hist, puts, obs_result, csv_content>>

(* ----------------------------- rainfall -------------------------------- *)
MAX_RETRIES == 3

\* STATE_MAP, in dict order
RAIN_STATE_CODES ==
    <<"SEL", "NSN", "JHR", "PHG", "PER", "KED", "PP", "PRK", "WPKL", "MEL",
      "TRG", "KEL", "WPL", "SBH", "SWK">>

\* the keys of NEW_STATE_PARAM_MAP
NEW_STATE_PARAM_KEYS ==
    {"PER", "KED", "PP", "PRK", "SEL", "WPKL", "NSN", "MEL", "JHR", "PHG",
     "TRG", "KEL", "SWK", "SBH", "WPL"}

\* the columns the two rainfall pages are taken to carry
RainOldCols == <<"state_code", "state_name", "Bil.", "ID Stesen">>
RainNewCols == <<"state_code", "state_name", "No.", "Station ID">>

\* one GET of the old page: an exception, a non-200 answer, or a page from
\* which parse_state_page_old gets n items
RainOldOutcomes ==
    PageErrors({"raises", "status"}) \cup [kind : {"page"}, n : 0..MaxRows, hdr : {1}]

\* the GET of the new endpoint; no_thead is a table without <thead>, on
\* which parse_state_page_new raises AttributeError inside the try
RainNewOutcomes ==
    PageErrors({"raises", "status", "no_thead"})
    \cup [kind : {"page"}, n : 0..MaxRows, hdr : {1}]

RainItems(code, src, n, cols) == [k \in 1..n |-> Record(code, src, k, cols)]

\* the loop going round again after a non-200 answer as well
RetryAgain_OnStatus(o, n) == o.kind \in {"raises", "status"} /\ n < MAX_RETRIES

\* the retry loop goes round again only after an exception, and only
\* while attempts are left
RetryAgain(o, n) == o.kind = "raises" /\ n < MAX_RETRIES

\* the test inverted (if state_items:)
RainNeedsFallback_Inverted(state_items) == state_items # <<>>

\* the fallback entered whatever the first source gave
RainNeedsFallback_Always(state_items) == TRUE

\* if not state_items: the fallback is entered only for an empty first source
RainNeedsFallback(state_items) == state_items = <<>>

\* all_items.extend(state_items) and on to the next state
RainCollect(state_items) ==
    /\ all_items' = all_items \o state_items
    /\ idx' = idx + 1
    /\ attempt' = 1
    /\ pc' = AfterState(idx, todo)

RainStart ==
    /\ prog = "rain" /\ pc = "resolve"
    /\ todo' = SubSeq(RAIN_STATE_CODES, 1, NumStates)
    /\ hist' = FreshHist(todo')
    /\ pc' = "scrape"
    /\ UNCHANGED <<ProcessVars, prog, body, env_ok, idx, attempt, legacy_result, results,
                   all_items, puts, cdm_calls, obs_result, csv_content, response>>

\* one attempt of the old URL and, when the loop ends, the parse and the
\* decision on the fallback
RainOld ==
    /\ prog = "rain" /\ pc = "scrape"
    /\ \E o \in RainOldOutcomes :
         IF RetryAgain(o, attempt)
         THEN /\ attempt' = attempt + 1
              /\ hist' = [hist EXCEPT ![idx] =
                            [@ EXCEPT !.gets1 = @ + 1,
                                      !.exc1 = @ + Raised(o)]]
              /\ UNCHANGED <<pc, idx, all_items, legacy_result>>
         ELSE LET state_items ==
                      IF o.kind = "page"
                      THEN RainItems(todo[idx], "old", o.n, RainOldCols)
                      ELSE <<>>
                  skip == todo[idx] \notin NEW_STATE_PARAM_KEYS
              IN  IF RainNeedsFallback(state_items) /\ ~skip
                  THEN /\ pc' = "fallback"
                       /\ legacy_result' =
                            [ScrapedRows(todo[idx], "old", 0, RainOldCols)
                               EXCEPT !.count = Len(state_items),
                                      !.data = state_items]
                       /\ hist' = [hist EXCEPT ![idx] =
                                     [@ EXCEPT !.gets1 = @ + 1,
                                               !.exc1 = @ + Raised(o),
                                               !.parsed1 = o.kind = "page",
                                               !.n1 = Len(state_items)]]
                       /\ UNCHANGED <<idx, all_items, attempt>>
                  ELSE /\ RainCollect(state_items)
                       /\ hist' = [hist EXCEPT ![idx] =
                                     [@ EXCEPT !.gets1 = @ + 1,
                                               !.exc1 = @ + Raised(o),
                                               !.parsed1 = o.kind = "page",
                                               !.n1 = Len(state_items),
                                               !.out = Len(state_items)]]
                       /\ UNCHANGED legacy_result
    /\ UNCHANGED <<ProcessVars, prog, body, env_ok, todo, results, puts, cdm_calls,
                   obs_result, csv_content, response>>

\* the single GET of the new endpoint; the try around it also catches what
\* parse_state_page_new raises, and the state then contributes no item
RainNew ==
    /\ prog = "rain" /\ pc = "fallback"
    /\ \E o \in RainNewOutcomes :
         LET state_items ==
                 IF o.kind = "page"
                 THEN RainItems(todo[idx], "new", o.n, RainNewCols)
                 ELSE <<>>
         IN  /\ RainCollect(state_items)
             /\ hist' = [hist EXCEPT ![idx] =
                           [@ EXCEPT !.att2 = TRUE, !.gets2 = 1,
                                     !.exc2 = Raised(o),
                                     !.n2 = Len(state_items),
                                     !.out = Len(state_items)]]
    /\ legacy_result' = NoResult
    /\ UNCHANGED <<ProcessVars, prog, body, env_ok, todo, results, puts, cdm_calls,
                   obs_result, csv_content, response>>

\* items_to_csv, upload_to_obs and the 200 answer; an exception of
\* upload_to_obs leaves the handler
RainSave ==
    /\ prog = "rain" /\ pc = "save"
    /\ csv_content' = items_to_csv(all_items)
    /\ \E po \in PutOutcomes :
         LET u == upload_to_obs(env_ok, po)
         IN  /\ obs_result' = u.obs
             /\ puts' = puts + u.put
             /\ response' =
                  IF u.obs.success
                  THEN Summary(200, TRUE, Len(all_items))
                  ELSE [NoResponse EXCEPT !.kind = "raised", !.error = u.obs.error]
    /\ pc' = "done"
    /\ UNCHANGED <<ProcessVars, prog, body, env_ok, todo, idx, attempt, legacy_result,
                   results, all_items, hist, cdm_calls>>

(* --------------------------- water quality ----------------------------- *)
WQ_STATE_MAPPING ==
    <<"Johor", "Kedah", "Kelantan", "Melaka", "Negeri Sembilan", "Pahang",
      "Pulau Pinang", "Perak", "Perlis", "Selangor", "Terengganu", "Sabah",
      "Sarawak", "WP Kuala Lumpur", "WP Labuan", "WP Putrajaya">>

WqRegistry == SubSeq(WQ_STATE_MAPPING, 1, NumStates)

\* the keys a crwqi record of the API may carry
WqPayloadKeys == << <<"STATION_ID", "WQI">>, <<"STATION_ID", "WQI", "REMARK">> >>

WqExtraCols == <<"state_id", "state_name">>

\* what fetch_state_water_quality adds to each record
WqAddedCols ==
    IF prog = "wq1" THEN <<"STATE_ID", "STATE_NAME", "state_id", "state_name">>
    ELSE <<"state_id", "state_name">>

\* api_error is a payload with an "error" key; only waterquality_fg1 looks
WqOutcomes ==
    PageErrors({"request_failed", "json_error", "exception", "api_error"})
    \cup [kind : {"payload"}, n : 0..MaxRows, hdr : DOMAIN WqPayloadKeys]

fetch_state_water_quality(state_id, state_name, o) ==
    CASE o.kind = "request_failed" ->
            ErrorResult(state_name, <<"Request failed for state_id=", state_name>>)
      [] o.kind = "json_error" ->
            ErrorResult(state_name, <<"Failed to decode JSON for state_id=", state_name>>)
      [] o.kind = "exception" ->
            ErrorResult(state_name, <<"Processing failed for state_id=", state_name>>)
      [] o.kind = "api_error" /\ prog = "wq1" ->
            ErrorResult(state_name, <<"API error for state_id=", state_name>>)
      [] o.kind = "api_error" \/ o.n = 0 ->
            [keys |-> {"count", "data", "message"}, state |-> state_name,
             count |-> 0, data |-> <<>>, error |-> <<>>]
      [] OTHER ->
            [keys |-> {"count", "data"}, state |-> state_name, count |-> o.n,
             data |-> [k \in 1..o.n |->
                        Record(state_name, "myeqms", k,
                               WqPayloadKeys[o.hdr] \o WqAddedCols)],
             error |-> <<>>]

save_to_obs_wq(rs, po) ==
    LET s == SaveFirstRowCsv(rs, WqExtraCols, po)
    IN  IF po = "rejected" /\ s.put = 1
        THEN [s EXCEPT !.obs.has_key = FALSE]
        ELSE s

WqResolve ==
    /\ prog = "wq" /\ pc = "resolve"
    /\ LET r == ResolveStateIds(WqRegistry, body)
       IN  IF ~env_ok
           THEN /\ response' = Returned(400, FALSE, <<"Missing OBS configuration">>, -1)
                /\ pc' = "done"
                /\ UNCHANGED <<todo, hist>>
           ELSE IF ~r.found
           THEN /\ response' = Returned(400, FALSE, <<"State not found in mapping">>, -1)
                /\ pc' = "done"
                /\ UNCHANGED <<todo, hist>>
           ELSE /\ todo' = r.ids
                /\ hist' = FreshHist(r.ids)
                /\ pc' = AfterState(0, r.ids)
                /\ UNCHANGED response
    /\ UNCHANGED <<ProcessVars, prog, body, env_ok, idx, attempt, legacy_result, results,
                   all_items, puts, cdm_calls, obs_result, csv_content>>

WqFetch ==
    /\ prog = "wq" /\ pc = "scrape"
    /\ \E o \in WqOutcomes :
         LET result == fetch_state_water_quality(
                           todo[idx], StateName(WqRegistry, todo[idx]), o)
         IN  /\ results' = Append(results, result)
             /\ hist' = [hist EXCEPT ![idx] =
                           [@ EXCEPT !.gets1 = 1, !.exc1 = Raised(o),
                                     !.n1 = GetCount(result),
                                     !.out = GetCount(result)]]
    /\ idx' = idx + 1
    /\ pc' = AfterState(idx, todo)
    /\ UNCHANGED <<ProcessVars, prog, body, env_ok, todo, attempt, legacy_result, all_items,
                   puts, cdm_calls, obs_result, csv_content, response>>

\* waterquality_fg.handler after the loop: save, then always answer 200
WqSave ==
    /\ prog = "wq" /\ pc = "save"
    /\ \E po \in PutOutcomes :
         LET s == save_to_obs_wq(results, po)
         IN  /\ obs_result' = s.obs
             /\ csv_content' = s.csv
             /\ puts' = puts + s.put
    /\ response' = Summary(200, TRUE, TotalCount(results))
    /\ pc' = "done"
    /\ UNCHANGED <<ProcessVars, prog, body, env_ok, todo, idx, attempt, legacy_result,
                   results, all_items, hist, cdm_calls>>

\* the rows of one state_name, in order
RowsOf(rows, name) ==
    LET RECURSIVE Pick(_)
        Pick(s) == IF s = <<>> THEN <<>>
                   ELSE (IF Head(s).state = name THEN <<Head(s)>> ELSE <<>>)
                        \o Pick(Tail(s))
    IN  Pick(rows)

\* rows_by_state and state_results of waterquality_fg1.handler
GroupByState(rows) ==
    LET names == FirstSeen([i \in DOMAIN rows |-> rows[i].state])
    IN  [j \in DOMAIN names |->
           [keys |-> {"count", "data"}, state |-> names[j],
            count |-> Len(RowsOf(rows, names[j])),
            data |-> RowsOf(rows, names[j]), error |-> <<>>]]

Wq1Start ==
    /\ prog = "wq1" /\ pc = "resolve"
    /\ todo' = [k \in DOMAIN WqRegistry |-> k]
    /\ hist' = FreshHist(todo')
    /\ pc' = "scrape"
    /\ UNCHANGED <<ProcessVars, prog, body, env_ok, idx, attempt, legacy_result, results,
                   all_items, puts, cdm_calls, obs_result, csv_content, response>>

\* one round of the loop of scrape_waterquality and, after the last state,
\* the handler's early 500 when no row was found
Wq1Fetch ==
    /\ prog = "wq1" /\ pc = "scrape"
    /\ \E o \in WqOutcomes :
         LET result == fetch_state_water_quality(
                           todo[idx], StateName(WqRegistry, todo[idx]), o)
             all_rows == all_items \o Wl1Keeps(result)
         IN  /\ all_items' = all_rows
             /\ hist' = [hist EXCEPT ![idx] =
                           [@ EXCEPT !.gets1 = 1, !.exc1 = Raised(o),
                                     !.n1 = GetCount(result),
                                     !.out = Len(Wl1Keeps(result))]]
             /\ IF idx >= Len(todo) /\ all_rows = <<>>
                THEN /\ pc' = "done"
                     /\ response' = Returned(500, FALSE,
                          <<"Scraping failed: ", "No water quality data found from any state">>,
                          -1)
                ELSE /\ pc' = AfterState(idx, todo)
                     /\ UNCHANGED response
    /\ idx' = idx + 1
    /\ UNCHANGED <<ProcessVars, prog, body, env_ok, todo, attempt, legacy_result, results,
                   puts, cdm_calls, obs_result, csv_content>>

\* the handler only logs a failed save and goes on to step 3
Wq1AfterSave(obs) == "trigger"

Wq1Save ==
    /\ prog = "wq1" /\ pc = "save"
    /\ results' = GroupByState(all_items)
    /\ \E po \in PutOutcomes :
         LET s == save_to_obs_wq(results', po)
         IN  /\ obs_result' = s.obs
             /\ csv_content' = s.csv
             /\ puts' = puts + s.put
             /\ pc' = Wq1AfterSave(s.obs)
    /\ UNCHANGED <<ProcessVars, prog, body, env_ok, todo, idx, attempt, legacy_result,
                   all_items, hist, cdm_calls, response>>

Wq1Trigger ==
    /\ prog = "wq1" /\ pc = "trigger"
    /\ \E to \in CdmOutcomes :
         LET c == start_cdm_job(to)
         IN  response' =
               IF c.raised
               THEN Returned(500, FALSE, <<"Pipeline execution failed: ">> \o c.msg, -1)
               ELSE Summary(IF obs_result.success THEN 200 ELSE 206,
                            obs_result.success, Len(all_items))
    /\ cdm_calls' = cdm_calls + 1
    /\ pc' = "done"
    /\ UNCHANGED <<ProcessVars, prog, body, env_ok, todo, idx, attempt, legacy_result,
                   results, all_items, hist, puts, obs_result, csv_content>>

(* --------------------------- specification ----------------------------- *)
Programs == {"dam", "wl", "wl1", "rain", "wq", "wq1"}

NoBody == [shape |-> "default", ids |-> <<>>, names |-> <<>>]

\* the event bodies a handler reads; the pipelines ignore the event
Bodies(p) ==
    CASE p = "dam" -> IdBodies
      [] p = "wl" -> NameBodies
      [] p = "wq" -> IdBodies
      [] OTHER -> {NoBody}

\* whether OBS_AK, OBS_SK (and endpoint, bucket) are set; the dam handler
\* never looks at them itself
EnvChoices(p) == IF p \in {"dam", "wq1"} THEN {TRUE} ELSE BOOLEAN

Init ==
    /\ prog \in Programs
    /\ body \in Bodies(prog)
    /\ env_ok \in EnvChoices(prog)
    /\ pc = "resolve"
    /\ todo = <<>>
    /\ idx = 1
    /\ attempt = 1
    /\ legacy_result = NoResult
    /\ results = <<>>
    /\ all_items = <<>>
    /\ hist = <<>>
    /\ puts = 0
    /\ cdm_calls = 0
    /\ obs_result = NoObs
    /\ csv_content = NoCsv
    /\ response = NoResponse
    /\ ProcessInit

Next ==
    \/ DamResolve
    \/ DamScrape
    \/ DamSave
    \/ DamTrigger
    \/ WlResolve
    \/ Wl1Start
    \/ WlLegacy
    \/ WlNew
    \/ WlSave
    \/ Wl1Save
    \/ Wl1Trigger
    \/ RainStart
    \/ RainOld
    \/ RainNew
    \/ RainSave
    \/ WqResolve
    \/ WqFetch
    \/ WqSave
    \/ Wq1Start
    \/ Wq1Fetch
    \/ Wq1Save
    \/ Wq1Trigger

Spec == Init /\ [][Next]_vars

(* ------------------------- the row parsers ----------------------------- *)
\* A table is the list of its rows' cell counts; the c-th cell of row k is
\* <<k, c>>, so a value that ends up in another row's record shows.
\* most rows of a table, and most cells of a row of a two-header page
MaxTableRows == 4
MaxCells == 3
\* most <table> elements of a document
MaxTables == 3

Min(a, b) == IF a <= b THEN a ELSE b
Max(a, b) == IF a >= b THEN a ELSE b

\* s[a:b] and s[a:] of Python, for 0 <= a
Slice(s, a, b) == SubSeq(s, a + 1, Min(b, Len(s)))
SliceFrom(s, a) == SubSeq(s, a + 1, Len(s))
\* s[-n:]
LastN(s, n) == SubSeq(s, Max(1, Len(s) - n + 1), Len(s))

Cells(k, w) == [c \in 1..w |-> <<k, c>>]

\* the i-th header text of header row r
HeaderTexts(r, w) == [c \in 1..w |-> <<"th", r, c>>]

\* s at the positions of the index set S, in increasing order
Pick(s, S) ==
    [k \in 1..Cardinality(S) |->
       s[CHOOSE i \in S : Cardinality({j \in S : j < i}) = k - 1]]

Item(k, columns, values) == [row |-> k, columns |-> columns, values |-> values]

\* the keys of the dict a parser builds: the two metadata keys, then one
\* assignment item[col_name] = value per column, a repeated name keeping
\* its first place
ItemKeys(item) ==
    FirstSeen(<< <<"state_code">>, <<"state_name">> >> \o item.columns)

\* item[key] after the assignments: the value assigned last
ItemGet(item, key) ==
    item.values[CHOOSE i \in DOMAIN item.columns :
                  /\ item.columns[i] = key
                  /\ \A j \in DOMAIN item.columns :
                       item.columns[j] = key => j <= i]

\* the texts a table is searched for
HintTokens == {"Bil.", "ID Stesen"}

\* a table picked as soon as it holds one of the two texts
pick_rainfall_table_AnyHint(tables) ==
    IF tables = <<>> THEN 0
    ELSE LET hits == {i \in DOMAIN tables : tables[i] \cap HintTokens # {}}
         IN  IF hits # {} THEN CHOOSE i \in hits : \A j \in hits : i <= j
             ELSE Len(tables)

\* pick_rainfall_table: a document is the list of its tables, a table the
\* set of hint texts it contains; the result is the table's position, 0
\* for None
pick_rainfall_table(tables) ==
    IF tables = <<>> THEN 0
    ELSE LET hits == {i \in DOMAIN tables : HintTokens \subseteq tables[i]}
         IN  IF hits # {} THEN CHOOSE i \in hits : \A j \in hits : i <= j
             ELSE Len(tables)

\* base_cols with the first 4 texts only
DualColumns_Prefix4(top_texts, bottom_texts) ==
    Slice(top_texts, 0, 4) \o bottom_texts \o LastN(top_texts, 2)

\* columns = base_cols + date_cols + tail_cols of the two-header parsers
DualColumns(top_texts, bottom_texts) ==
    Slice(top_texts, 0, 5) \o bottom_texts \o LastN(top_texts, 2)

\* only the rows that are too short skipped
SkipMalformed_ShortOnly(n, ncols) == n < ncols

\* if len(tds) != ncols: continue
SkipMalformed(n, ncols) == n # ncols

\* a parser that takes every row of a short table for a data row
parse_state_page_old_NoMinimum(all_rows) ==
    [k \in DOMAIN all_rows |-> Item(k, <<>>, Cells(k, all_rows[k]))]

\* parse_state_page, parse_state_page_old and RainfallSpider.parse_state:
\* all_rows is table.find_all("tr"), two header rows and then the data
parse_state_page_old(all_rows) ==
    IF Len(all_rows) < 3 THEN <<>>
    ELSE LET columns == DualColumns(HeaderTexts(1, all_rows[1]),
                                    HeaderTexts(2, all_rows[2]))
             ncols == Len(columns)
             kept == {k \in 3..Len(all_rows) : ~SkipMalformed(all_rows[k], ncols)}
         IN  [j \in 1..Cardinality(kept) |->
                LET k == Pick([i \in DOMAIN all_rows |-> i], kept)[j]
                IN  Item(k, columns, Cells(k, all_rows[k]))]

\* columns of parse_state_page_new from the <th> texts of <thead>
NewColumns(th_texts) ==
    Slice(th_texts, 0, 5) \o SliceFrom(th_texts, 8) \o Slice(th_texts, 6, 8)

\* parse_state_page_new: every <td> of <tbody> in one list, cut into
\* pieces of ncols cells
parse_state_page_new(th, rows) ==
    LET columns == NewColumns(HeaderTexts(1, th))
        ncols == Len(columns)
        td_values == Flatten([k \in DOMAIN rows |-> Cells(k, rows[k])])
        starts == {i \in 0..(Len(td_values) - 1) : i % ncols = 0}
        full == {i \in starts : i + ncols <= Len(td_values)}
    IN  IF td_values = <<>> THEN <<>>
        ELSE [j \in 1..Cardinality(full) |->
                LET i == Pick([x \in 1..Len(td_values) |-> x - 1],
                              {x + 1 : x \in full})[j]
                IN  Item(td_values[i + 1][1], columns,
                         SubSeq(td_values, i + 1, i + ncols))]

\* the row loop of scrape_dam_data: a row needs 8 cells or more, and gets
\* one value per header column it has a cell for
DamRows(th, rows) ==
    LET base_columns == HeaderTexts(1, th)
        kept == {k \in DOMAIN rows : ~(rows[k] = 0) /\ ~(rows[k] < 8)}
    IN  [j \in 1..Cardinality(kept) |->
           LET k == Pick([i \in DOMAIN rows |-> i], kept)[j]
               n == Min(Len(base_columns), rows[k])
           IN  Item(k, SubSeq(base_columns, 1, n), SubSeq(Cells(k, rows[k]), 1, n))]

\* the row loop of _scrape_state_new: 12 cells or more and a numeric bil;
\* the first 12 cells are taken
WlNewRows(rows, digit) ==
    LET kept == {k \in DOMAIN rows : ~(rows[k] < 12) /\ digit[k]}
    IN  [j \in 1..Cardinality(kept) |->
           LET k == Pick([i \in DOMAIN rows |-> i], kept)[j]
           IN  Item(k, SubSeq(WlCols, 2, 13), SubSeq(Cells(k, rows[k]), 1, 12))]

\* table = pick_rainfall_table(...); if table is None: return []
ParseDocument(doc, all_rows) ==
    IF pick_rainfall_table(doc) = 0 THEN <<>>
    ELSE parse_state_page_old(all_rows)

DualHeaderParsers ==
    {"parse_state_page", "parse_state_page_old", "RainfallSpider.parse_state"}

Parsers ==
    DualHeaderParsers \cup {"parse_state_page_new", "scrape_dam_data",
                            "_scrape_state_new", "pick_rainfall_table"}

\* the widths of a first header row that is as wide as the pages' one
WideHeaderWidths == {7, 8}

\* the header widths and row widths each parser is run on: around the
\* width the parser takes for a full row
NewHeaderWidths == {1, 2, 9}

ParserInputs(p) ==
    CASE p \in DualHeaderParsers ->
            [doc : {<<HintTokens>>}, th : {0},
             rows : SeqsUpTo(0..MaxCells, MaxTableRows), digit : {<<>>}]
            \cup UNION {[doc : {<<HintTokens>>}, th : {0},
                         rows : {<<top, bottom>> \o data :
                                   data \in SeqsUpTo({5 + bottom + 2 + d :
                                                        d \in {-1, 0, 1}},
                                                     MaxTableRows - 2)},
                         digit : {<<>>}] :
                          top \in WideHeaderWidths, bottom \in 0..(MaxCells - 1)}
            \cup [doc : {<<>>}, th : {0}, rows : {<<>>}, digit : {<<>>}]
      [] p = "pick_rainfall_table" ->
            [doc : SeqsUpTo(SUBSET HintTokens, MaxTables), th : {0},
             rows : {<<>>}, digit : {<<>>}]
      [] p = "parse_state_page_new" ->
            UNION {[th : {h},
                    rows : SeqsUpTo({Len(NewColumns(HeaderTexts(1, h))) + d :
                                       d \in {-1, 0, 1}}, MaxTableRows - 1),
                    digit : {<<>>}] : h \in NewHeaderWidths}
      [] p = "scrape_dam_data" ->
            [th : {8, 9}, rows : SeqsUpTo({0, 7, 8, 9}, MaxTableRows - 1),
             digit : {<<>>}]
      [] OTHER ->
            UNION {[th : {12}, rows : [1..n -> {11, 12, 13}],
                    digit : [1..n -> BOOLEAN]] : n \in 0..(MaxTableRows - 2)}

\* the column count of the schema the parser built for this table
SchemaWidth(p, table) ==
    CASE p \in DualHeaderParsers ->
            IF Len(table.rows) < 2 THEN 0
            ELSE Len(DualColumns(HeaderTexts(1, table.rows[1]),
                                 HeaderTexts(2, table.rows[2])))
      [] p = "parse_state_page_new" -> Len(NewColumns(HeaderTexts(1, table.th)))
      [] OTHER -> table.th

\* the rows of the table that are data rows
DataRows(p, table) ==
    IF p \in DualHeaderParsers THEN 3..Len(table.rows) ELSE DOMAIN table.rows

ParseInit ==
    /\ prog \in Parsers
    /\ body \in ParserInputs(prog)
    /\ env_ok = TRUE
    /\ pc = "call"
    /\ todo = <<>>
    /\ idx = 1
    /\ attempt = 1
    /\ legacy_result = NoResult
    /\ results = <<>>
    /\ all_items = <<>>
    /\ hist = <<>>
    /\ puts = 0
    /\ cdm_calls = 0
    /\ obs_result = NoObs
    /\ csv_content = NoCsv
    /\ response = NoResponse
    /\ ProcessInit

Parsed(items) ==
    /\ pc = "call"
    /\ all_items' = items
    /\ pc' = "done"
    /\ UNCHANGED <<ProcessVars, prog, body, env_ok, todo, idx, attempt, legacy_result,
                   results, hist, puts, cdm_calls, obs_result, csv_content,
                   response>>

ParseDualHeader ==
    /\ prog \in DualHeaderParsers
    /\ Parsed(ParseDocument(body.doc, body.rows))

\* the picker alone: the position of the table it returns, nothing for None
ParsePick ==
    /\ prog = "pick_rainfall_table"
    /\ Parsed(IF pick_rainfall_table(body.doc) = 0 THEN <<>>
              ELSE <<pick_rainfall_table(body.doc)>>)

ParseNew ==
    /\ prog = "parse_state_page_new"
    /\ Parsed(parse_state_page_new(body.th, body.rows))

ParseDam ==
    /\ prog = "scrape_dam_data"
    /\ Parsed(DamRows(body.th, body.rows))

ParseWlNew ==
    /\ prog = "_scrape_state_new"
    /\ Parsed(WlNewRows(body.rows, body.digit))

ParseNext ==
    \/ ParseDualHeader
    \/ ParseNew
    \/ ParseDam
    \/ ParseWlNew
    \/ ParsePick

ParseSpec == ParseInit /\ [][ParseNext]_vars

(* ------------------------- the CSV encoders ---------------------------- *)
\* A text is a sequence of characters; a column name is one character of
\* its own.  A record is its keys in insertion order and their values.
\* most records of an encoded list, most keys of one record
MaxRecs == 2
MaxKeys == 2

EncKeys == {"state_code", "state_name", "Bil.", "No."}

CsvValues == {<<>>, <<"a">>, <<",">>, <<"\"">>, <<"\n">>}

KeyLists ==
    {ks \in UNION {[1..n -> EncKeys] : n \in 1..MaxKeys} :
        \A i, j \in DOMAIN ks : ks[i] = ks[j] => i = j}

\* every key list with plain values, and the rainfall key lists with every
\* value in the last column
EncRecords ==
    {[cols |-> ks, vals |-> [i \in DOMAIN ks |-> <<"a">>]] : ks \in KeyLists}
    \cup {[cols |-> ks, vals |-> [i \in DOMAIN ks |->
                                    IF i = Len(ks) THEN v ELSE <<"a">>]] :
            ks \in {<<"Bil.">>, <<"state_name", "Bil.">>, <<"state_name", "No.">>},
            v \in CsvValues}

\* rowdict.get(key, restval) with restval = ""
GetValue(rec, key) ==
    IF \E i \in DOMAIN rec.cols : rec.cols[i] = key
    THEN rec.vals[CHOOSE i \in DOMAIN rec.cols : rec.cols[i] = key]
    ELSE <<>>

\* csv.writer with QUOTE_MINIMAL: a field that holds the delimiter, the
\* quote character or a character of the line terminator is quoted, with
\* its quotes doubled
QuoteField(v) ==
    IF \E i \in DOMAIN v : v[i] \in {",", "\"", "\r", "\n"}
    THEN <<"\"">>
         \o Flatten([i \in DOMAIN v |->
                       IF v[i] = "\"" THEN <<"\"", "\"">> ELSE <<v[i]>>])
         \o <<"\"">>
    ELSE v

\* writerow: fields joined by commas and ended by \r\n; a row that is one
\* empty field is written as ""
WriteRow(fields) ==
    IF fields = << <<>> >> THEN <<"\"", "\"", "\r", "\n">>
    ELSE Flatten([i \in DOMAIN fields |->
                    (IF i > 1 THEN <<",">> ELSE <<>>) \o QuoteField(fields[i])])
         \o <<"\r", "\n">>

\* writeheader and one writerow per record
DictWriterText(fieldnames, rows) ==
    WriteRow([j \in DOMAIN fieldnames |-> <<fieldnames[j]>>])
    \o Flatten([i \in DOMAIN rows |->
                  WriteRow([j \in DOMAIN fieldnames |->
                              GetValue(rows[i], fieldnames[j])])])

\* items_to_csv with the text it returns
ItemsToCsvText(items) ==
    LET csv == items_to_csv(items)
    IN  [encoded |-> TRUE, fieldnames |-> csv.fieldnames, rows |-> csv.rows,
         text |-> IF items = <<>> THEN <<>>
                  ELSE DictWriterText(csv.fieldnames, items)]

\* the CSV part of the dam save_to_obs: fieldnames from the first row, a
\* ValueError of writerow ends it, no row gives the empty text
DamCsvText(rows) ==
    LET fieldnames == FirstRowFieldnames(rows, DamExtraCols)
    IN  IF ~DictWriterAccepts(fieldnames, rows)
        THEN [encoded |-> FALSE, fieldnames |-> <<>>, rows |-> <<>>,
              text |-> <<>>]
        ELSE [encoded |-> TRUE, fieldnames |-> fieldnames,
              rows |-> IF fieldnames # <<>> THEN rows ELSE <<>>,
              text |-> IF fieldnames # <<>>
                       THEN DictWriterText(fieldnames, rows) ELSE <<>>]

Encoders == {"items_to_csv", "save_to_obs"}

CsvInit ==
    /\ prog \in Encoders
    /\ body \in SeqsUpTo(EncRecords, MaxRecs)
    /\ env_ok = TRUE
    /\ pc = "call"
    /\ todo = <<>>
    /\ idx = 1
    /\ attempt = 1
    /\ legacy_result = NoResult
    /\ results = <<>>
    /\ all_items = <<>>
    /\ hist = <<>>
    /\ puts = 0
    /\ cdm_calls = 0
    /\ obs_result = NoObs
    /\ csv_content = NoCsv
    /\ response = NoResponse
    /\ ProcessInit

Encoded(csv) ==
    /\ pc = "call"
    /\ csv_content' = csv
    /\ pc' = "done"
    /\ UNCHANGED <<ProcessVars, prog, body, env_ok, todo, idx, attempt, legacy_result,
                   results, all_items, hist, puts, cdm_calls, obs_result,
                   response>>

EncodeItems ==
    /\ prog = "items_to_csv"
    /\ Encoded(ItemsToCsvText(body))

EncodeDam ==
    /\ prog = "save_to_obs"
    /\ Encoded(DamCsvText(body))

CsvNext ==
    \/ EncodeItems
    \/ EncodeDam

CsvSpec == CsvInit /\ [][CsvNext]_vars

(* ------------------------- the Scrapy variant -------------------------- *)
\* One process: the handler is invoked again and again, the globals stay.
\* The crawl runs inside the first run_spider call; its requests are sent,
\* answered and parsed in any order, a callback giving way at each yield.
CONCURRENT_REQUESTS == 4

\* one request per entry of STATE_MAP
start_requests ==
    [s \in 1..SpiderStates |-> [NoRequest EXCEPT !.status = "queued"]]

InFlight == {s \in DOMAIN crawl : crawl[s].status = "in_flight"}

\* the item of the k-th accepted row of state s
ScrapyItem(s, k) == [state |-> s, row |-> k]

\* an append that lands on the last slot of the list
AppendItem_Overwrite(items, item) ==
    IF items = <<>> THEN <<item>> ELSE [items EXCEPT ![Len(items)] = item]

\* SCRAPED_ITEMS.append(item)
AppendItem(items, item) == Append(items, item)

\* json.dumps of the item list: brackets, the items separated by commas
JsonDumps(items) ==
    <<"[">>
    \o Flatten([i \in DOMAIN items |->
                  (IF i > 1 THEN <<",">> ELSE <<>>) \o <<items[i]>>])
    \o <<"]">>

ScrapyInit ==
    /\ prog = "scrapy"
    /\ body = NoBody
    /\ env_ok \in BOOLEAN
    /\ pc = "start"
    /\ todo = <<>>
    /\ idx = 1
    /\ attempt = 1
    /\ legacy_result = NoResult
    /\ results = <<>>
    /\ all_items = <<>>
    /\ hist = <<>>
    /\ puts = 0
    /\ cdm_calls = 0
    /\ obs_result = NoObs
    /\ csv_content = NoCsv
    /\ response = NoResponse
    /\ ProcessInit

\* handler entry and run_spider up to the start of the crawl, or up to
\* its return [] when the reactor has been started before
RunSpider ==
    /\ prog = "scrapy" /\ pc \in {"start", "done"}
    /\ invocation < MaxInvocations
    /\ invocation' = invocation + 1
    /\ IF REACTOR_STARTED
       THEN /\ all_items' = <<>>
            /\ pc' = "upload"
            /\ UNCHANGED <<REACTOR_STARTED, crawl>>
       ELSE /\ REACTOR_STARTED' = TRUE
            /\ crawl' = start_requests
            /\ pc' = "crawl"
            /\ UNCHANGED all_items
    /\ obs_result' = NoObs
    /\ csv_content' = NoCsv
    /\ response' = NoResponse
    /\ UNCHANGED <<SCRAPED_ITEMS, prog, body, env_ok, todo, idx, attempt,
                   legacy_result, results, hist, puts, cdm_calls>>

\* the engine sends a queued request while fewer than CONCURRENT_REQUESTS
\* are in flight
SpiderSend ==
    /\ prog = "scrapy" /\ pc = "crawl"
    /\ Cardinality(InFlight) < CONCURRENT_REQUESTS
    /\ \E s \in DOMAIN crawl :
         /\ crawl[s].status = "queued"
         /\ crawl' = [crawl EXCEPT ![s].status = "in_flight"]
    /\ UNCHANGED <<REACTOR_STARTED, SCRAPED_ITEMS, invocation, prog, body,
                   env_ok, pc, todo, idx, attempt, legacy_result, results,
                   all_items, hist, puts, cdm_calls, obs_result, csv_content,
                   response>>

\* a request fails: it is queued again until RETRY_TIMES retries are
\* used, then dropped without a callback
SpiderFail ==
    /\ prog = "scrapy" /\ pc = "crawl"
    /\ \E s \in InFlight :
         crawl' = [crawl EXCEPT ![s] =
                     IF @.retries < MAX_RETRIES
                     THEN [@ EXCEPT !.status = "queued", !.retries = @ + 1]
                     ELSE [@ EXCEPT !.status = "failed"]]
    /\ UNCHANGED <<REACTOR_STARTED, SCRAPED_ITEMS, invocation, prog, body,
                   env_ok, pc, todo, idx, attempt, legacy_result, results,
                   all_items, hist, puts, cdm_calls, obs_result, csv_content,
                   response>>

\* a response arrives and parse_state starts on it: n rows of the page
\* will be accepted (none for a page without table or with a short one)
SpiderRespond ==
    /\ prog = "scrapy" /\ pc = "crawl"
    /\ \E s \in InFlight, n \in 0..MaxRows :
         crawl' = [crawl EXCEPT ![s] =
                     [@ EXCEPT !.status = IF n = 0 THEN "done" ELSE "parsing",
                               !.n = n]]
    /\ UNCHANGED <<REACTOR_STARTED, SCRAPED_ITEMS, invocation, prog, body,
                   env_ok, pc, todo, idx, attempt, legacy_result, results,
                   all_items, hist, puts, cdm_calls, obs_result, csv_content,
                   response>>

\* one turn of a callback's row loop: the item is appended and yielded
SpiderParseRow ==
    /\ prog = "scrapy" /\ pc = "crawl"
    /\ \E s \in DOMAIN crawl :
         /\ crawl[s].status = "parsing"
         /\ SCRAPED_ITEMS' =
               AppendItem(SCRAPED_ITEMS, ScrapyItem(s, crawl[s].pos + 1))
         /\ crawl' = [crawl EXCEPT ![s] =
                        [@ EXCEPT !.pos = @ + 1,
                                  !.status = IF crawl[s].pos + 1 = crawl[s].n
                                             THEN "done" ELSE "parsing"]]
    /\ UNCHANGED <<REACTOR_STARTED, invocation, prog, body, env_ok, pc, todo,
                   idx, attempt, legacy_result, results, all_items, hist,
                   puts, cdm_calls, obs_result, csv_content, response>>

\* process.start() returns when no request is left: return list(SCRAPED_ITEMS)
RunSpiderReturn ==
    /\ prog = "scrapy" /\ pc = "crawl"
    /\ \A s \in DOMAIN crawl : crawl[s].status \in {"done", "failed"}
    /\ all_items' = SCRAPED_ITEMS
    /\ pc' = "upload"
    /\ UNCHANGED <<ProcessVars, prog, body, env_ok, todo, idx, attempt,
                   legacy_result, results, hist, puts, cdm_calls, obs_result,
                   csv_content, response>>

\* json.dumps, upload_to_obs and the return of the handler; the
\* RuntimeError of upload_to_obs leaves the handler
ScrapyUpload ==
    /\ prog = "scrapy" /\ pc = "upload"
    /\ csv_content' = [encoded |-> TRUE, fieldnames |-> <<>>, rows |-> <<>>,
                       text |-> JsonDumps(all_items)]
    /\ IF ~env_ok
       THEN /\ obs_result' = [called |-> TRUE, success |-> FALSE,
                              error |-> <<"OBS_AK and OBS_SK must be set">>,
                              has_key |-> FALSE]
            /\ response' = [NoResponse EXCEPT
                              !.kind = "raised",
                              !.error = <<"OBS_AK and OBS_SK must be set">>]
            /\ UNCHANGED puts
       ELSE \E po \in PutOutcomes :
              /\ puts' = puts + 1
              /\ obs_result' = [called |-> TRUE, success |-> po = "ok",
                                error |-> IF po = "ok" THEN <<>>
                                          ELSE IF po = "rejected"
                                          THEN <<"OBS upload failed: ">>
                                          ELSE <<"put raised">>,
                                has_key |-> po = "ok"]
              /\ response' = IF po = "ok"
                             THEN Summary(200, TRUE, Len(all_items))
                             ELSE [NoResponse EXCEPT
                                     !.kind = "raised",
                                     !.error = IF po = "rejected"
                                               THEN <<"OBS upload failed: ">>
                                               ELSE <<"put raised">>]
    /\ pc' = "done"
    /\ UNCHANGED <<ProcessVars, prog, body, env_ok, todo, idx, attempt,
                   legacy_result, results, all_items, hist, cdm_calls>>

ScrapyNext ==
    \/ RunSpider
    \/ SpiderSend
    \/ SpiderFail
    \/ SpiderRespond
    \/ SpiderParseRow
    \/ RunSpiderReturn
    \/ ScrapyUpload

ScrapySpec == ScrapyInit /\ [][ScrapyNext]_vars

(* ------------------------------ claims --------------------------------- *)
UploadFailed == obs_result.called /\ ~obs_result.success

\* C1: in the dam handler and the water-level pipeline handler a run whose
\* OBS upload failed (rejected put, or any exception while saving or
\* uploading) never invokes start_cdm_job and ends with a statusCode 500
\* response whose error text carries the upload error.
C1_FailedUploadEndsRunWithoutTrigger ==
    (prog \in {"dam", "wl1"} /\ UploadFailed) =>
        /\ cdm_calls = 0
        /\ pc = "done"
        /\ response.kind = "returned"
        /\ response.statusCode = 500
        /\ obs_result.error # <<>>
        /\ IsSuffix(obs_result.error, response.error)

C1_Witness ==
    /\ prog = "dam"
    /\ UploadFailed
    /\ puts = 1
    /\ response.statusCode = 500

\* C2: in the water-quality pipeline handler start_cdm_job is called zero
\* times in every run in which save_to_obs returned success = False.
C2_NoTriggerAfterFailedSave ==
    (prog = "wq1" /\ UploadFailed) => cdm_calls = 0

\* C3: in the three handlers with a trigger step start_cdm_job is called
\* only in a run whose uploaded CSV holds at least one data record.
C3_TriggerOnlyWithRecords ==
    (prog \in {"dam", "wl1", "wq1"} /\ cdm_calls > 0) =>
        /\ csv_content.encoded
        /\ csv_content.rows # <<>>

HasFallbackChain == prog \in {"wl", "wl1", "rain"}

\* C4: for every state with a two-source chain, if the first source gave
\* at least one record then no request is sent to the second source for
\* that state in that run.
C4_NoSecondRequestAfterFirstSuccess ==
    HasFallbackChain =>
        \A i \in DOMAIN hist :
            hist[i].n1 >= 1 => (hist[i].gets2 = 0 /\ ~hist[i].att2)

C4_Witness ==
    /\ prog = "wl"
    /\ pc = "done"
    /\ \E i \in DOMAIN hist :
         hist[i].n1 >= 1 /\ hist[i].gets1 = 1 /\ hist[i].out = hist[i].n1

C5_Order ==
    HasFallbackChain =>
        \A i \in DOMAIN hist :
            /\ hist[i].att2 => hist[i].n1 = 0
            /\ (hist[i].out >= 0 /\ hist[i].n1 = 0) => hist[i].att2
            /\ hist[i].out = 0 =>
                 (hist[i].att2 /\ hist[i].n1 = 0 /\ hist[i].n2 = 0)

C5_Step ==
    HasFallbackChain =>
        \A i \in DOMAIN hist :
            (i \in DOMAIN hist' /\ hist'[i].att2 /\ ~hist[i].att2) =>
                /\ pc = "fallback"
                /\ idx = i
                /\ hist[i].n1 = 0
                /\ hist[i].gets1 >= 1

\* C5: per state the chain is strictly ordered: the second source is
\* attempted exactly when the first source gave zero records (request
\* error, missing table, parsing exception or empty table), its attempt
\* starts only after the first source's attempt has resolved, and a
\* zero-record outcome for the state is produced only after both sources
\* have been attempted.
C5_FallbackIsOrdered == []C5_Order /\ [][C5_Step]_vars

C5_Witness ==
    /\ prog = "rain"
    /\ \E i \in DOMAIN hist :
         /\ hist[i].gets1 = MAX_RETRIES
         /\ hist[i].att2
         /\ hist[i].n1 = 0
         /\ hist[i].n2 = 0
         /\ hist[i].out = 0

\* the message names the legacy source's reason and then the new source's
NamesBothReasons(msg) ==
    \E j, k \in DOMAIN msg : j < k /\ msg[j] = "Legacy: " /\ msg[k] = "; New: "

\* C6: when both sources of a state give zero records, the failure that
\* scrape_state_data returns carries one reason per attempted source, in
\* source order, for every combination of per-source outcomes, an empty
\* table included.
C6_FailureNamesEverySource ==
    prog = "wl" =>
        \A i \in DOMAIN results :
            "error" \in results[i].keys => NamesBothReasons(results[i].error)

\* C7: every per-state result is either a success with at least one record
\* and no error reason, or a failure with an error reason and no records.
C7_ResultIsSuccessOrFailure ==
    prog \in {"dam", "wl", "wq"} =>
        \A i \in DOMAIN results :
            \/ (results[i].data # <<>> /\ "error" \notin results[i].keys)
            \/ (results[i].data = <<>> /\ "error" \in results[i].keys)

SingleSource(rows) ==
    \A a, b \in DOMAIN rows :
        rows[a].state = rows[b].state => rows[a].src = rows[b].src

RequestedLen ==
    CASE body.shape \in {"state_id", "state"} -> 1
      [] body.shape = "state_ids" -> Len(body.ids)
      [] body.shape = "states" -> Len(body.names)
      [] OTHER -> NumStates

HandlerRegistry == IF prog = "wq" THEN WqRegistry ELSE DamRegistry

\* the entry the i-th requested state is due
EntryMatches(i) ==
    CASE prog = "wl" /\ body.shape = "default" ->
            results[i].state \in {"", WL_DEFAULT_STATE_LIST[i]}
      [] prog = "wl" -> results[i].state \in {"", body.names[i]}
      [] body.shape \in {"state_id", "state_ids"} ->
            results[i].state = StateName(HandlerRegistry, body.ids[i])
      [] body.shape \in {"state", "states"} ->
            IF LookupId(HandlerRegistry, body.names[i]) # 0
            THEN results[i].state =
                     HandlerRegistry[LookupId(HandlerRegistry, body.names[i])]
            ELSE "error" \in results[i].keys
      [] OTHER -> results[i].state = HandlerRegistry[i]

\* C9: once the loop over the requested states is over, results holds
\* exactly one entry per requested state, in request order, a state name
\* or id that is in no registry included.
C9_OneEntryPerRequestedState ==
    (prog \in {"dam", "wl", "wq"} /\ pc = "save") =>
        /\ Len(results) = RequestedLen
        /\ \A i \in DOMAIN results : EntryMatches(i)

Perms(n) == {f \in [1..n -> 1..n] : \A a, b \in 1..n : f[a] = f[b] => a = b}

\* records of the successful results, counted one result at a time
SuccessRecords(rs) ==
    SumSeq([i \in DOMAIN rs |->
              IF "error" \notin rs[i].keys THEN Len(rs[i].data) ELSE 0])

C11_EmptyDatasetKeepsHeader ==
    (prog \in {"rain", "wl1", "dam", "wl"} /\ csv_content.encoded
       /\ csv_content.rows = <<>>) =>
        csv_content.fieldnames # <<>>

\* the records of the requested states taken in the order f
ItemsInOrder(f) ==
    Flatten([i \in DOMAIN todo |-> RowsOf(all_items, todo[f[i]])])

ResultsInOrder(f) == [i \in DOMAIN results |-> results[f[i]]]

HandlerExtraCols == IF prog = "dam" THEN DamExtraCols ELSE WqExtraCols

\* C13: the header of the encoded CSV does not depend on which state gave
\* the first record: for every reordering of the same per-state results
\* the encoder (items_to_csv, the dam and the water-quality save_to_obs)
\* emits the same column sequence, and encoding succeeds for each order.
C13_HeaderIndependentOfStateOrder ==
    /\ (prog = "rain" /\ pc = "done") =>
          \A f \in Perms(Len(todo)) :
              items_to_csv(ItemsInOrder(f)).fieldnames = csv_content.fieldnames
    /\ (prog \in {"dam", "wq"} /\ obs_result.called) =>
          \A f \in Perms(Len(results)) :
              LET rows == FlattenData(ResultsInOrder(f))
                  fieldnames == FirstRowFieldnames(rows, HandlerExtraCols)
              IN  /\ DictWriterAccepts(fieldnames, rows)
                  /\ csv_content.encoded
                  /\ fieldnames = csv_content.fieldnames

\* C17: for each state and each source a request that fails with a
\* transient network error is retried, up to MAX_RETRIES attempts in all:
\* for the rainfall first source and also for the rainfall fallback
\* endpoint, the water-level sources and the dam source.
C17_EverySourceRetries ==
    prog \in {"rain", "wl", "wl1", "dam"} =>
        \A i \in DOMAIN hist :
            /\ (hist[i].n1 >= 0 /\ hist[i].exc1 > 0) =>
                  hist[i].gets1 >= Min(hist[i].exc1 + 1, MAX_RETRIES)
            /\ (hist[i].n2 >= 0 /\ hist[i].exc2 > 0) =>
                  hist[i].gets2 >= Min(hist[i].exc2 + 1, MAX_RETRIES)

\* C18: in the rainfall retry loop the GETs of one state's first source
\* number at least 1 and at most MAX_RETRIES; attempt n+1 is made only if
\* attempt n raised; any HTTP response, a 4xx included, ends the loop at
\* once; and when all MAX_RETRIES attempts raise the source counts as
\* failed for the state (no page is parsed) and the run goes on.
C18_RainRetryLoop ==
    prog = "rain" =>
        /\ attempt \in 1..MAX_RETRIES
        /\ response.kind # "raised" \/ pc = "done"
        /\ \A i \in DOMAIN hist :
              LET h == hist[i]
              IN  /\ h.gets1 \in 0..MAX_RETRIES
                  /\ h.exc1 <= h.gets1
                  /\ h.gets1 <= h.exc1 + 1
                  /\ h.n1 >= 0 =>
                        /\ h.gets1 >= 1
                        /\ h.gets1 = h.exc1 + 1 \/ h.exc1 = MAX_RETRIES
                  /\ h.n1 < 0 =>
                        /\ h.gets1 = h.exc1
                        /\ h.gets1 < MAX_RETRIES
                        /\ i = idx => attempt = h.gets1 + 1
                  /\ h.parsed1 => h.gets1 = h.exc1 + 1
                  /\ h.exc1 = MAX_RETRIES =>
                        /\ h.n1 = 0
                        /\ ~h.parsed1
                        /\ i = idx => pc = "fallback"
                        /\ i < idx => h.att2

C18_Witness ==
    /\ prog = "rain"
    /\ pc = "save"
    /\ hist[1].exc1 = MAX_RETRIES
    /\ hist[1].gets1 = MAX_RETRIES
    /\ hist[2].exc1 = 1
    /\ hist[2].gets1 = 2
    /\ ~hist[2].parsed1

\* C19: no handler invocation ends with an exception escaping to the
\* caller: whatever fetching, encoding, upload and trigger do, the handler
\* returns a structured response with a statusCode.
C19_NoExceptionEscapes ==
    /\ response.kind # "raised"
    /\ pc = "done" => (response.kind = "returned" /\ response.statusCode > 0)

\* C20: an upload failure is fatal in every handler: when the OBS upload
\* failed, the final response is not statusCode 200 with success = true,
\* the handlers without a trigger step included.
C20_UploadFailureIsFatal ==
    (pc = "done" /\ UploadFailed) =>
        ~(response.kind = "returned" /\ response.statusCode = 200
            /\ response.success)
\* a data row whose cell count is the schema's column count
WellFormed(k) == body.rows[k] = SchemaWidth(prog, body)

IsRecordOfRow(item, k) ==
    /\ item.row = k
    /\ item.values = Cells(k, body.rows[k])
    /\ Len(item.columns) = Len(item.values)

\* C15: in the two-header rainfall parsers every data row whose cell count
\* differs from the schema's column count is left out and every data row
\* whose cell count equals it is included, in table order, so the number
\* of records is the number of well-formed rows.
C15_DualHeaderKeepsWellFormedRows ==
    (prog \in DualHeaderParsers /\ pc = "done") =>
        LET good == {k \in DataRows(prog, body) : WellFormed(k)}
        IN  /\ Len(all_items) = Cardinality(good)
            /\ \A j \in DOMAIN all_items :
                 /\ all_items[j].row \in good
                 /\ IsRecordOfRow(all_items[j], all_items[j].row)
            /\ \A i, j \in DOMAIN all_items :
                 i < j => all_items[i].row < all_items[j].row

C15_Witness ==
    /\ prog = "RainfallSpider.parse_state"
    /\ pc = "done"
    /\ Len(body.rows) = 4
    /\ Len(all_items) = 1
    /\ all_items[1].row = 4
    /\ body.rows[3] # body.rows[4]
    /\ body.rows[4] > 1

\* C16: in every parser a data row becomes a record only if its cell
\* count is exactly the schema's column count, and a shorter or longer row
\* is dropped without shifting or corrupting other rows: in
\* scrape_dam_data, the water-level new-URL parser and
\* parse_state_page_new, which regroups the flat cell list of the body.
C16_OnlyExactRowsBecomeRecords ==
    (prog \in {"scrape_dam_data", "_scrape_state_new", "parse_state_page_new"}
       /\ pc = "done") =>
        /\ \A j \in DOMAIN all_items :
             \E k \in DataRows(prog, body) :
                 WellFormed(k) /\ IsRecordOfRow(all_items[j], k)
        /\ \A k \in DataRows(prog, body) :
             (WellFormed(k) /\ (prog = "_scrape_state_new" => body.digit[k])) =>
                 \E j \in DOMAIN all_items : IsRecordOfRow(all_items[j], k)
\* position i of the text is outside every quoted field
Unquoted(text, i) ==
    Cardinality({j \in 1..(i - 1) : text[j] = "\""}) % 2 = 0

\* a quoted field without its outer quotes and with "" read as "
Unquote(raw) ==
    IF raw # <<>> /\ raw[1] = "\""
    THEN LET inner == SubSeq(raw, 2, Len(raw) - 1)
         IN  Pick(inner, {i \in DOMAIN inner :
                            inner[i] = "\"" => ~Unquoted(inner, i)})
    ELSE raw

\* the pieces of text[from..to] between the positions of seps
SplitAt(text, from, to, seps, width) ==
    [k \in 1..(Cardinality(seps) + 1) |->
       LET cuts == Pick([i \in 1..Len(text) |-> i], seps)
           lo == IF k = 1 THEN from ELSE cuts[k - 1] + 1
           hi == IF k > Cardinality(seps) THEN to ELSE cuts[k] - width
       IN  SubSeq(text, lo, hi)]

\* a CSV reader: records end at an unquoted \r\n, fields at an unquoted comma
ReadCsv(text) ==
    LET ends == {i \in DOMAIN text : text[i] = "\n" /\ Unquoted(text, i)}
        lines == SplitAt(text, 1, Len(text), ends, 2)
    IN  [r \in 1..Cardinality(ends) |->
           LET line == lines[r]
               commas == {i \in DOMAIN line : line[i] = "," /\ Unquoted(line, i)}
               raw == SplitAt(line, 1, Len(line), commas, 1)
           IN  [f \in DOMAIN raw |-> Unquote(raw[f])]]

\* the (column, value) pairs of a record, and of a row read back
PairsOfRecord(rec) == {<<rec.cols[j], rec.vals[j]>> : j \in DOMAIN rec.cols}

PairsOfRow(header, row) ==
    {<<header[j][1], row[j]>> : j \in DOMAIN header \cap DOMAIN row}

NoDuplicates(s) == \A i, j \in DOMAIN s : s[i] = s[j] => i = j

\* the position at which key first occurs while the records are scanned
FirstSeenAt(items, key) ==
    LET keys == Flatten([i \in DOMAIN items |-> items[i].cols])
    IN  CHOOSE i \in DOMAIN keys :
            keys[i] = key /\ \A j \in 1..(i - 1) : keys[j] # key

MetaCols == {"state_code", "state_name"}

\* C12: for a non-empty list of records the header of items_to_csv is the
\* union of the keys of all records, without duplicates; state_code and
\* state_name take the first positions when present, and the other
\* columns follow in the order in which they were first seen.
C12_HeaderIsUnionInFirstSeenOrder ==
    (prog = "items_to_csv" /\ pc = "done" /\ body # <<>>) =>
        LET fieldnames == csv_content.fieldnames
            meta == MetaCols \cap Range(fieldnames)
        IN  /\ Range(fieldnames) = UNION {Range(body[i].cols) : i \in DOMAIN body}
            /\ NoDuplicates(fieldnames)
            /\ {fieldnames[i] : i \in 1..Cardinality(meta)} = meta
            /\ \A p, q \in DOMAIN fieldnames :
                 (p < q /\ fieldnames[p] \notin MetaCols
                    /\ fieldnames[q] \notin MetaCols) =>
                     FirstSeenAt(body, fieldnames[p]) < FirstSeenAt(body, fieldnames[q])
            /\ ReadCsv(csv_content.text)[1] =
                 [j \in DOMAIN fieldnames |-> <<fieldnames[j]>>]

C12_Witness ==
    /\ prog = "items_to_csv"
    /\ pc = "done"
    /\ Len(body) = 2
    /\ body[1].cols = <<"Bil.", "state_name">>
    /\ body[2].cols = <<"No.", "state_code">>
    /\ Len(csv_content.fieldnames) = 4
    /\ csv_content.fieldnames[3] = "Bil."
    /\ csv_content.fieldnames[4] = "No."

\* C14: for every list of records the encoder's output read back as CSV
\* gives, per record and in record order, exactly the (column, value)
\* pairs the record had, also for values with a comma, a double quote or a
\* newline, and no pair for a column the record did not have.
C14_CsvRoundTrip ==
    (prog \in Encoders /\ pc = "done") =>
        /\ csv_content.encoded
        /\ LET read == ReadCsv(csv_content.text)
           IN  /\ Len(read) = IF body = <<>> THEN 0 ELSE Len(body) + 1
               /\ \A i \in DOMAIN body :
                    PairsOfRow(read[1], read[i + 1]) = PairsOfRecord(body[i])

\* C21: in the handlers that upload and then trigger the migration job,
\* once the upload has succeeded and the trigger has been attempted the
\* response reports the upload result, also when the trigger failed (in
\* which case it carries the trigger's error as well).
C21_TriggerFailureKeepsUploadResult ==
    (prog \in {"dam", "wl1"} /\ pc = "done" /\ obs_result.success
       /\ cdm_calls > 0) =>
        /\ response.kind = "returned"
        /\ response.obs_upload
        /\ (response.statusCode # 200 => response.error # <<>>)

\* the ids a request names that are in the registry: ids by exact key,
\* names by case-insensitive comparison with the registry's names
FoundIds(registry, b) ==
    LET InRegistry(id) == id \in DOMAIN registry
        IdsOfNames == [i \in DOMAIN b.names |->
                         IF \E k \in DOMAIN registry :
                              Lower(registry[k]) = Lower(b.names[i])
                         THEN CHOOSE k \in DOMAIN registry :
                                Lower(registry[k]) = Lower(b.names[i])
                         ELSE 0]
        Known(id) == id # 0
    IN  IF b.shape \in {"state_id", "state_ids"}
        THEN SelectSeq(b.ids, InRegistry)
        ELSE SelectSeq(IdsOfNames, Known)

\* C22: in the dam and water-quality handlers, for each of the four
\* request shapes, the states fetched are exactly the requested ids that
\* are registry keys and the requested names that match a registry name
\* without regard to case; when the request names nothing that is in the
\* registry there is no fetch, no upload and no trigger.
C22_UnknownEntityIsNotFound ==
    (prog \in {"dam", "wq"} /\ pc # "resolve" /\ body.shape # "default") =>
        LET registry == IF prog = "dam" THEN DamRegistry ELSE WqRegistry
            found == FoundIds(registry, body)
        IN  /\ response.statusCode # 400 => todo = found
            /\ found = <<>> =>
                  /\ \A i \in DOMAIN hist : hist[i].gets1 = 0
                  /\ puts = 0
                  /\ cdm_calls = 0

\* C28: whenever the records given to items_to_csv carry both state_code
\* and state_name, the header's first column is state_code and its second
\* column is state_name.
C28_StateCodeThenStateName ==
    (prog = "items_to_csv" /\ pc = "done"
       /\ \E i \in DOMAIN body : "state_code" \in Range(body[i].cols)
       /\ \E j \in DOMAIN body : "state_name" \in Range(body[j].cols)) =>
        /\ csv_content.fieldnames[1] = "state_code"
        /\ csv_content.fieldnames[2] = "state_name"

\* a scraped row with a plain value under each of its keys
WithValues(r) == [cols |-> r.cols, vals |-> [j \in DOMAIN r.cols |-> <<"a">>]]

\* C29: in the dam pipeline the CSV columns are the keys of the first
\* record. If a later record has a key the first one lacks, save_to_obs
\* fails before any put (success False, nothing uploaded), start_cdm_job
\* is not called and the handler answers 500. If every record's keys are
\* among the first record's, the put is issued for a text whose header is
\* the first record's keys and in which a column a record lacks is an
\* empty field.
C29_FirstRecordFixesColumns ==
    (prog = "dam" /\ obs_result.called /\ FlattenData(results) # <<>>) =>
        LET rows == FlattenData(results)
            first == Range(rows[1].cols)
        IN  IF \E i \in DOMAIN rows : ~(Range(rows[i].cols) \subseteq first)
            THEN /\ ~obs_result.success
                 /\ puts = 0
                 /\ cdm_calls = 0
                 /\ pc = "done"
                 /\ response.statusCode = 500
            ELSE /\ puts = 1
                 /\ csv_content.encoded
                 /\ Range(csv_content.fieldnames) = first
                 /\ Len(csv_content.fieldnames) = Cardinality(first)
                 /\ LET fieldnames == csv_content.fieldnames
                        read == ReadCsv(DictWriterText(fieldnames,
                                    [i \in DOMAIN rows |-> WithValues(rows[i])]))
                    IN  /\ Len(read) = Len(rows) + 1
                        /\ \A i \in DOMAIN rows : \A j \in DOMAIN fieldnames :
                             read[i + 1][j] =
                                 IF fieldnames[j] \in Range(rows[i].cols)
                                 THEN <<"a">> ELSE <<>>

C29_Witness ==
    /\ prog = "dam"
    /\ pc = "done"
    /\ obs_result.called
    /\ Len(FlattenData(results)) = 2
    /\ FlattenData(results)[1].cols # FlattenData(results)[2].cols
    /\ Range(FlattenData(results)[1].cols) \subseteq Range(FlattenData(results)[2].cols)
    /\ puts = 0
    /\ response.statusCode = 500

\* C24: every record a parser produces has as its keys exactly the
\* schema's columns plus the metadata fields. For the two-header rainfall
\* parsers the record has len(columns) + 2 keys and its value under
\* columns[i] is the i-th cell, also when the first header row has fewer
\* than 7 cells; for scrape_dam_data every header column is a key of
\* every record.
C24_RecordKeysAreTheSchema ==
    /\ (prog \in DualHeaderParsers /\ pc = "done") =>
          \A n \in DOMAIN all_items :
             LET item == all_items[n]
             IN  /\ Len(ItemKeys(item)) = Len(item.columns) + 2
                 /\ \A i \in DOMAIN item.columns :
                      ItemGet(item, item.columns[i]) = item.values[i]
    /\ (prog = "scrape_dam_data" /\ pc = "done") =>
          \A n \in DOMAIN all_items :
             Range(HeaderTexts(1, body.th)) \subseteq Range(all_items[n].columns)

\* the schema the claim describes, from the widths of the two header rows
ExpectedColumns(top, bottom) ==
    LET prefix == Min(5, top)
        suffix == Min(2, top)
    IN  [i \in 1..(prefix + bottom + suffix) |->
           IF i <= prefix THEN <<"th", 1, i>>
           ELSE IF i <= prefix + bottom THEN <<"th", 2, i - prefix>>
           ELSE <<"th", 1, top - suffix + (i - prefix - bottom)>>]

\* C25: the schema of a two-header table is the first 5 cell texts of
\* header row 1, then all cell texts of header row 2, then the last 2 cell
\* texts of header row 1, in this order; when header row 1 has 7 cells or
\* more the schema has 5 + len(row 2) + 2 columns.
C25_DualHeaderSchema ==
    (prog \in DualHeaderParsers /\ pc = "done") =>
        \A n \in DOMAIN all_items :
           LET columns == all_items[n].columns
               top == body.rows[1]
               bottom == body.rows[2]
           IN  /\ columns = ExpectedColumns(top, bottom)
               /\ top >= 7 => Len(columns) = 5 + bottom + 2
               /\ Len(all_items[n].values) = Len(columns)

C25_Witness ==
    /\ prog = "parse_state_page_old"
    /\ pc = "done"
    /\ body.rows = <<8, 2, 9, 9>>
    /\ Len(all_items) = 2
    /\ all_items[2].columns[5] = <<"th", 1, 5>>
    /\ all_items[2].columns[6] = <<"th", 2, 1>>
    /\ all_items[2].columns[9] = <<"th", 1, 8>>

\* C26: a rainfall table with fewer than 3 rows gives no record whatever
\* its rows hold, and so does a document without a table; the source then
\* counts as having given nothing when the fallback is decided.
C26_ShortTableGivesNothing ==
    (prog \in DualHeaderParsers /\ pc = "done"
       /\ (body.doc = <<>> \/ Len(body.rows) < 3)) =>
        /\ all_items = <<>>
        /\ RainNeedsFallback(all_items)

C26_Witness ==
    /\ prog = "parse_state_page_old"
    /\ pc = "done"
    /\ body.doc # <<>>
    /\ body.rows = <<1, 0>>
    /\ all_items = <<>>

\* C27: for a document with tables pick_rainfall_table returns the first
\* table, in document order, that contains both 'Bil.' and 'ID Stesen';
\* when no table contains both it returns the last table; for a document
\* without tables it returns None.
C27_PickRainfallTable ==
    (prog = "pick_rainfall_table" /\ pc = "done") =>
        LET doc == body.doc
            Both(i) == "Bil." \in doc[i] /\ "ID Stesen" \in doc[i]
        IN  IF doc = <<>> THEN all_items = <<>>
            ELSE /\ Len(all_items) = 1
                 /\ all_items[1] \in DOMAIN doc
                 /\ IF \E i \in DOMAIN doc : Both(i)
                    THEN /\ Both(all_items[1])
                         /\ \A j \in 1..(all_items[1] - 1) : ~Both(j)
                    ELSE all_items[1] = Len(doc)

C27_Witness ==
    /\ prog = "pick_rainfall_table"
    /\ pc = "done"
    /\ body.doc = <<{"Bil."}, {"Bil.", "ID Stesen"}, {"Bil.", "ID Stesen"}>>
    /\ all_items = <<2>>

\* how often x occurs in the list
Count(items, x) == Cardinality({i \in DOMAIN items : items[i] = x})

\* C23: in the Scrapy variant, whatever the order in which the responses
\* arrive and the callbacks take their turns, every row a callback has
\* accepted is in SCRAPED_ITEMS exactly once and nothing else is; the list
\* run_spider returns from the crawl holds each accepted row of each
\* fetched state exactly once, so it is the same multiset of records for
\* every interleaving of the same pages.
C23_EveryRowAppendedOnce ==
    (prog = "scrapy") =>
        /\ \A s \in DOMAIN crawl : \A k \in 1..MaxRows :
              Count(SCRAPED_ITEMS, ScrapyItem(s, k)) =
                  IF k <= crawl[s].pos THEN 1 ELSE 0
        /\ Len(SCRAPED_ITEMS) = SumSeq([s \in DOMAIN crawl |-> crawl[s].pos])
        /\ (invocation = 1 /\ pc \in {"upload", "done"}) =>
              /\ \A s \in DOMAIN crawl : \A k \in 1..MaxRows :
                    Count(all_items, ScrapyItem(s, k)) =
                        IF crawl[s].status = "done" /\ k <= crawl[s].n
                        THEN 1 ELSE 0
              /\ Len(all_items) =
                    SumSeq([s \in DOMAIN crawl |->
                              IF crawl[s].status = "done" THEN crawl[s].n ELSE 0])

C23_Witness ==
    /\ prog = "scrapy"
    /\ invocation = 1
    /\ pc = "upload"
    /\ crawl[3].status = "failed"
    /\ all_items = <<ScrapyItem(2, 1), ScrapyItem(1, 1), ScrapyItem(2, 2),
                     ScrapyItem(1, 2)>>

\* C30: in the Scrapy variant REACTOR_STARTED is False until the first
\* run_spider call of the process and True ever after, so the crawl is
\* started at most once; every later invocation of the handler skips the
\* crawl, gets the empty list, uploads the empty JSON list and returns
\* statusCode 200 with rows_scraped = 0.
C30_CrawlOncePerProcess ==
    (prog = "scrapy") =>
        /\ REACTOR_STARTED = (invocation >= 1)
        /\ invocation >= 2 => pc # "crawl"
        /\ (invocation >= 2 /\ pc \in {"upload", "done"}) => all_items = <<>>
        /\ (invocation >= 2 /\ pc = "done") =>
              /\ csv_content.text = <<"[", "]">>
              /\ obs_result.success
              /\ response.kind = "returned"
              /\ response.statusCode = 200
              /\ response.total = 0
====
